---- MODULE Spec2Model ----
(***************************************************************************)
(* Model of scaffold.py: the artifact extractor                            *)
(* (extract_artifacts_from_markdown), the tree resolver                    *)
(* (create_project_from_yaml), the flat writer                             *)
(* (create_files_from_artifacts) and main, which runs them.                *)
(*                                                                         *)
(* A string is a sequence of one-character strings, so that strip, split,  *)
(* replace, startswith and endswith are computed character by character.   *)
(* Line and position indices are 0-based, as in the source.                *)
(***************************************************************************)
EXTENDS Integers, Sequences, FiniteSets, TLC

VARIABLES
    lines,          \* the document, as returned by f.readlines()
    i, j, k,        \* the three scan indices of the extractor
    file_path_str,  \* candidate path of the header under search
    is_versioned,   \* whether the header under search carried a version marker
    code_content,   \* lines collected so far for the block being read
    artifacts,      \* ordered mapping path -> content (insertion order kept)
    found,          \* stdout of the extractor: one record per "[+] Found artifact"
    scanned,        \* history of the scan: the lines the outer loop matched as headers
    pc,             \* position of the program
    diag,           \* stdout: the error reports, in order
    yaml,           \* the tree declaration file as main finds it
    structure,      \* the declared tree (yaml_data['structure'])
    stack,          \* recursion stack of create_project_from_yaml
    os_sep,         \* separator str(Path) uses on the host
    templates,      \* template files on disk: name -> state
    dirs,           \* directories created below the project root
    files,          \* files written below the project root: path -> content
    empty_files,    \* the empty-files accumulator
    created         \* stdout of the writers: one record per file whose write was attempted

extractVars == <<lines, i, j, k, file_path_str, is_versioned, code_content, artifacts, found, scanned>>
resolveVars == <<structure, stack, os_sep, templates, dirs, files, empty_files, created>>
vars == <<lines, i, j, k, file_path_str, is_versioned, code_content, artifacts, found, scanned, pc,
          diag, yaml,
          structure, stack, os_sep, templates, dirs, files, empty_files, created>>

(***************************************************************************)
(* Bounds of the model.                                                    *)
(***************************************************************************)
MaxChunks == 4
MaxArtifacts == 2

(***************************************************************************)
(* Python values and string methods.                                       *)
(***************************************************************************)
\* Python's None; differs from every string, the empty string included.
None == <<"None">>

\* U+2219, the version separator of line 56 and 61, written as one ASCII character.
VersionSep == "@"

\* The backtick (U+0060), written as a character a TLA+ string can hold.
Backtick == "~"

\* The triple-backtick marker of lines 17 and 91.
Fence == <<Backtick, Backtick, Backtick>>

Min(S) == CHOOSE n \in S : \A m \in S : n <= m

IsSpace(c) == c \in {" ", "\n", "\t", "\r"}

RECURSIVE lstrip(_)
lstrip(s) == IF s # <<>> /\ IsSpace(Head(s)) THEN lstrip(Tail(s)) ELSE s

RECURSIVE rstrip(_)
rstrip(s) == IF s # <<>> /\ IsSpace(s[Len(s)]) THEN rstrip(SubSeq(s, 1, Len(s) - 1)) ELSE s

strip(s) == rstrip(lstrip(s))

startswith(s, p) == Len(p) <= Len(s) /\ SubSeq(s, 1, Len(p)) = p

endswith(s, p) == Len(p) <= Len(s) /\ SubSeq(s, Len(s) - Len(p) + 1, Len(s)) = p

contains(s, c) == \E n \in 1..Len(s) : s[n] = c

\* 1-based position of the first occurrence of p in s, 0 when there is none.
find(s, p) ==
    LET at == {n \in 1..(Len(s) - Len(p) + 1) : SubSeq(s, n, n + Len(p) - 1) = p}
    IN  IF at = {} THEN 0 ELSE Min(at)

\* s.split(p)[0]
split_first(s, p) == IF find(s, p) = 0 THEN s ELSE SubSeq(s, 1, find(s, p) - 1)

\* s.replace(a, b) for single characters a and b
replace(s, a, b) == [n \in 1..Len(s) |-> IF s[n] = a THEN b ELSE s[n]]

\* Variant of join: every part is stripped before it is joined.
RECURSIVE join_stripped(_)
join_stripped(parts) ==
    IF parts = <<>> THEN <<>> ELSE strip(Head(parts)) \o join_stripped(Tail(parts))

\* "".join(parts)
RECURSIVE join(_)
join(parts) == IF parts = <<>> THEN <<>> ELSE Head(parts) \o join(Tail(parts))

\* sep.join(parts)
RECURSIVE join_with(_, _)
join_with(parts, sep) ==
    IF parts = <<>> THEN <<>>
    ELSE IF Len(parts) = 1 THEN Head(parts)
    ELSE Head(parts) \o <<sep>> \o join_with(Tail(parts), sep)

(***************************************************************************)
(* The two patterns.                                                       *)
(***************************************************************************)
\* FILE_PATH_PATTERN.match(s).group(1), or None when the pattern does not match:
\* "**", a non-empty run of characters other than "*", "**".
FILE_PATH_PATTERN(s) ==
    IF ~startswith(s, <<"*", "*">>) THEN None
    ELSE LET rest == SubSeq(s, 3, Len(s))
             n == find(rest, <<"*">>)
         IN  IF n >= 2 /\ Len(rest) >= n + 1 /\ rest[n + 1] = "*"
             THEN SubSeq(rest, 1, n - 1)
             ELSE None

\* CODE_BLOCK_PATTERN.match(s) is not None: three backticks, then any word characters.
CODE_BLOCK_PATTERN(s) == startswith(s, Fence)

\* Lines 61 and 64: the candidate path string of a raw header.
header_text(raw_header) == strip(split_first(raw_header, <<VersionSep>>))

candidate_path(raw_header) == strip(split_first(header_text(raw_header), <<" ", "-", " ">>))

\* Variant of is_valid_path: any non-empty header text is taken for a path.
is_valid_path_any(s) == s # <<>>

\* Line 70.
is_valid_path(s) == contains(s, ".") \/ contains(s, "/") \/ contains(s, "\\")

\* Variant of normalized_path: the header's separators are kept.
normalized_path_unchanged(s) == s

\* Line 95.
normalized_path(s) == replace(s, "\\", "/")

(***************************************************************************)
(* The ordered mapping (a Python dict): a sequence of entries with         *)
(* distinct keys, in insertion order.                                      *)
(***************************************************************************)
dict_has(d, key) == \E n \in 1..Len(d) : d[n].key = key

dict_get(d, key) == d[CHOOSE n \in 1..Len(d) : d[n].key = key].val

\* Variant of dict_put: an existing key keeps its first value.
dict_put_keep_first(d, key, val) ==
    IF \E n \in 1..Len(d) : d[n].key = key THEN d ELSE Append(d, [key |-> key, val |-> val])

\* Variant of dict_put: an overwritten key moves behind all others.
dict_put_move_to_end(d, key, val) ==
    LET keep == {n \in 1..Len(d) : d[n].key # key}
        F[n \in 0..Len(d)] ==
            IF n = 0 THEN <<>> ELSE IF n \in keep THEN Append(F[n - 1], d[n]) ELSE F[n - 1]
    IN  Append(F[Len(d)], [key |-> key, val |-> val])

\* d[key] = val: an existing key keeps its position.
dict_put(d, key, val) ==
    IF dict_has(d, key)
    THEN [n \in 1..Len(d) |-> IF d[n].key = key THEN [key |-> key, val |-> val] ELSE d[n]]
    ELSE Append(d, [key |-> key, val |-> val])

dict_keys(d) == {d[n].key : n \in 1..Len(d)}

(***************************************************************************)
(* Documents.                                                              *)
(***************************************************************************)
HdrSlash == <<"*", "*", "s", "r", "c", "/", "f", "o", "o", ".", "t", "s", "*", "*", "\n">>
HdrBackslash == <<"*", "*", "s", "r", "c", "\\", "f", "o", "o", ".", "t", "s", "*", "*", "\n">>
HdrDescribed ==
    <<" ", "*", "*", "f", "o", "o", ".", "t", "s", " ", "-", " ", "d", " ", VersionSep, " ", "2", "*", "*", "\n">>
HdrProse == <<"*", "*", "O", "v", "e", "r", "v", "i", "e", "w", "*", "*", "\n">>
FenceTagged == <<Backtick, Backtick, Backtick, "p", "y", "\n">>
FencePlain == <<" ", Backtick, Backtick, Backtick, "\n">>
TextLine == <<"h", "e", "l", "l", "o", "\n">>

\* A document is a concatenation of at most MaxChunks chunks; every line is a
\* chunk of its own, so every line sequence of that length is a document.
Chunks ==
    { <<HdrSlash>>, <<HdrBackslash>>, <<HdrDescribed>>, <<HdrProse>>,
      <<FenceTagged>>, <<FencePlain>>, <<TextLine>>,
      <<FenceTagged, TextLine, FencePlain>>,
      <<HdrSlash, FenceTagged, FencePlain, HdrDescribed, FenceTagged, FencePlain>> }

RECURSIVE DocsOf(_)
DocsOf(n) ==
    IF n = 0 THEN {<<>>}
    ELSE LET shorter == DocsOf(n - 1)
         IN  shorter \cup {d \o c : d \in shorter, c \in Chunks}

Documents == DocsOf(MaxChunks)

\* lines[n] of the source
Line(n) == lines[n + 1]

(***************************************************************************)
(* extract_artifacts_from_markdown, one action per loop iteration.         *)
(***************************************************************************)
\* Lines 36-38, 46: the document is read; doc is what the file holds.
ReadDocument(doc) ==
    /\ pc = "read"
    /\ lines' = doc
    /\ i' = 0
    /\ pc' = "scan"
    /\ UNCHANGED <<j, k, file_path_str, is_versioned, code_content, artifacts, found, scanned>>
    /\ UNCHANGED <<diag, yaml>>
    /\ UNCHANGED resolveVars

\* Variant of after_read_error: only FileNotFoundError is caught.
after_read_error_not_found_only(error) ==
    IF error = "Error: Markdown file not found" THEN "extracted" ELSE "crashed"

\* Lines 39-44: both handlers return {}.
after_read_error(error) == "extracted"

\* Lines 39-44: open() or readlines() raises; the empty mapping is returned.
ReadDocumentFails(error) ==
    /\ pc = "read"
    /\ diag' = Append(diag, error)
    /\ pc' = after_read_error(error)
    /\ UNCHANGED extractVars
    /\ UNCHANGED yaml
    /\ UNCHANGED resolveVars

\* Lines 52-54: the line is not a header candidate.
SkipLine ==
    /\ pc = "scan"
    /\ i < Len(lines)
    /\ FILE_PATH_PATTERN(strip(Line(i))) = None
    /\ i' = i + 1
    /\ UNCHANGED <<lines, j, k, file_path_str, is_versioned, code_content, artifacts, found, scanned, pc>>
    /\ UNCHANGED <<diag, yaml>>
    /\ UNCHANGED resolveVars

\* Lines 70-75: a header candidate that does not look like a path.
SkipInvalidHeader ==
    /\ pc = "scan"
    /\ i < Len(lines)
    /\ FILE_PATH_PATTERN(strip(Line(i))) # None
    /\ ~is_valid_path(candidate_path(FILE_PATH_PATTERN(strip(Line(i)))))
    /\ scanned' = scanned \cup {i}
    /\ i' = i + 1
    /\ UNCHANGED <<lines, j, k, file_path_str, is_versioned, code_content, artifacts, found, pc>>
    /\ UNCHANGED <<diag, yaml>>
    /\ UNCHANGED resolveVars

\* Lines 55-82: a valid header; start the forward search for a fence.
StartSearch ==
    /\ pc = "scan"
    /\ i < Len(lines)
    /\ FILE_PATH_PATTERN(strip(Line(i))) # None
    /\ LET raw_header == FILE_PATH_PATTERN(strip(Line(i)))
       IN  /\ is_valid_path(candidate_path(raw_header))
           /\ file_path_str' = candidate_path(raw_header)
           /\ is_versioned' = contains(raw_header, VersionSep)
    /\ scanned' = scanned \cup {i}
    /\ j' = i + 1
    /\ pc' = "search"
    /\ UNCHANGED <<lines, i, k, code_content, artifacts, found>>
    /\ UNCHANGED <<diag, yaml>>
    /\ UNCHANGED resolveVars

\* Lines 86-90: the fence start is found.
FoundFence ==
    /\ pc = "search"
    /\ j < Len(lines)
    /\ CODE_BLOCK_PATTERN(strip(Line(j)))
    /\ code_content' = <<>>
    /\ k' = j + 1
    /\ pc' = "collect"
    /\ UNCHANGED <<lines, i, j, file_path_str, is_versioned, artifacts, found, scanned>>
    /\ UNCHANGED <<diag, yaml>>
    /\ UNCHANGED resolveVars

\* Variant of AbortSearch: the search runs on past a header candidate.
AbortSearchMissing ==
    /\ pc = "search"
    /\ j < Len(lines)
    /\ ~CODE_BLOCK_PATTERN(strip(Line(j)))
    /\ FILE_PATH_PATTERN(strip(Line(j))) # None
    /\ j' = j + 1
    /\ UNCHANGED <<lines, i, k, file_path_str, is_versioned, code_content, artifacts, found, scanned, pc>>
    /\ UNCHANGED <<diag, yaml>>
    /\ UNCHANGED resolveVars

\* Variant of resume_after_abort: the scan resumes after the line that stopped the search.
resume_past_candidate(i0, j0) == j0 + 1

\* Lines 110, 115: break leaves i alone, then i += 1.
resume_after_abort(i0, j0) == i0 + 1

\* Lines 107-110, 115: another header candidate comes first; give up.
AbortSearch ==
    /\ pc = "search"
    /\ j < Len(lines)
    /\ ~CODE_BLOCK_PATTERN(strip(Line(j)))
    /\ FILE_PATH_PATTERN(strip(Line(j))) # None
    /\ i' = resume_after_abort(i, j)
    /\ pc' = "scan"
    /\ UNCHANGED <<lines, j, k, file_path_str, is_versioned, code_content, artifacts, found, scanned>>
    /\ UNCHANGED <<diag, yaml>>
    /\ UNCHANGED resolveVars

\* Line 111.
SearchNext ==
    /\ pc = "search"
    /\ j < Len(lines)
    /\ ~CODE_BLOCK_PATTERN(strip(Line(j)))
    /\ FILE_PATH_PATTERN(strip(Line(j))) = None
    /\ j' = j + 1
    /\ UNCHANGED <<lines, i, k, file_path_str, is_versioned, code_content, artifacts, found, scanned, pc>>
    /\ UNCHANGED <<diag, yaml>>
    /\ UNCHANGED resolveVars

\* Lines 83, 115: the document ends before any fence.
SearchExhausted ==
    /\ pc = "search"
    /\ j >= Len(lines)
    /\ i' = i + 1
    /\ pc' = "scan"
    /\ UNCHANGED <<lines, j, k, file_path_str, is_versioned, code_content, artifacts, found, scanned>>
    /\ UNCHANGED <<diag, yaml>>
    /\ UNCHANGED resolveVars

\* Lines 91-93.
CollectLine ==
    /\ pc = "collect"
    /\ k < Len(lines)
    /\ ~startswith(strip(Line(k)), Fence)
    /\ code_content' = Append(code_content, Line(k))
    /\ k' = k + 1
    /\ UNCHANGED <<lines, i, j, file_path_str, is_versioned, artifacts, found, scanned, pc>>
    /\ UNCHANGED <<diag, yaml>>
    /\ UNCHANGED resolveVars

\* Variant of resume_after_block: the scan resumes right after the opening fence.
resume_after_fence(i0, j0, k0) == j0 + 1

\* Variant of resume_after_block: the header line is scanned again.
resume_at_header(i0, j0, k0) == i0

\* Variant of resume_after_block: a block the document never closes is scanned again.
resume_inside_unclosed(i0, j0, k0) == IF k0 >= Len(lines) THEN j0 + 1 ELSE k0 + 1

\* Lines 103, 115: i = k, then i += 1.
resume_after_block(i0, j0, k0) == k0 + 1

\* Lines 95-105, 115: the block ends (closing fence or end of document).
RecordArtifact ==
    /\ pc = "collect"
    /\ ~(k < Len(lines) /\ ~startswith(strip(Line(k)), Fence))
    /\ artifacts' = dict_put(artifacts, normalized_path(file_path_str), join(code_content))
    /\ found' = Append(found, [path |-> normalized_path(file_path_str),
                               name |-> file_path_str,
                               versioned |-> is_versioned,
                               header |-> i, fence |-> j, close |-> k])
    /\ i' = resume_after_block(i, j, k)
    /\ pc' = "scan"
    /\ UNCHANGED <<lines, j, k, file_path_str, is_versioned, code_content, scanned>>
    /\ UNCHANGED <<diag, yaml>>
    /\ UNCHANGED resolveVars

\* The outer loop has run off the end of the document (line 47).
ScanEnded == pc = "scan" /\ i >= Len(lines)

\* Lines 47, 119: the function returns the mapping; its locals go out of scope.
ReturnArtifacts ==
    /\ ScanEnded
    /\ pc' = "extracted"
    /\ lines' = <<>>
    /\ i' = 0
    /\ j' = 0
    /\ k' = 0
    /\ file_path_str' = <<>>
    /\ is_versioned' = FALSE
    /\ code_content' = <<>>
    /\ scanned' = {}
    /\ UNCHANGED <<artifacts, found>>
    /\ UNCHANGED <<diag, yaml>>
    /\ UNCHANGED resolveVars

(***************************************************************************)
(* The declared tree and the host it is created on.                        *)
(***************************************************************************)
\* A key the YAML item does not carry.
Absent == <<"absent">>

Dir(name, children) ==
    [kind |-> "directory", name |-> name, children |-> children,
     content |-> Absent, template |-> Absent]

File(name, annot) ==
    [kind |-> "file", name |-> name, children |-> <<>>,
     content |-> annot[1], template |-> annot[2]]

\* An item that is not a dict, or a dict with neither 'directory' nor 'file'.
Other ==
    [kind |-> "other", name |-> <<>>, children |-> <<>>,
     content |-> Absent, template |-> Absent]

NameSrc == <<"s", "r", "c">>
NameFoo == <<"f", "o", "o", ".", "t", "s">>
NameMyFoo == <<"m", "y", "f", "o", "o", ".", "t", "s">>
NameApp == <<"a", "p", "p">>
NameTpl == <<"t", "p", "l">>
KeyOo == <<"o", "o", ".", "t", "s">>
KeySrcFoo == <<"s", "r", "c", "/", "f", "o", "o", ".", "t", "s">>

\* (content, template) of a declared file.
FileAnnots ==
    { <<Absent, Absent>>, <<Absent, NameTpl>>, <<<<"i">>, NameTpl>>, <<<<>>, Absent>> }

Structures ==
    { << Dir(NameSrc, <<File(NameFoo, a1), Other>>), File(NameMyFoo, a2) >> :
         a1 \in FileAnnots, a2 \in FileAnnots }
    \cup
    { << Dir(NameSrc, <<>>), File(NameSrc, <<Absent, Absent>>), File(NameFoo, a1) >> :
         a1 \in FileAnnots }
    \cup
    { << Dir(NameApp, << Dir(NameSrc, <<File(NameFoo, a1)>>) >>) >> : a1 \in FileAnnots }

\* What open() of a template file does.
TemplateStates ==
    { [st |-> "ok", content |-> <<"T", "\n">>], [st |-> "ok", content |-> <<>>],
      [st |-> "notfound", content |-> <<>>], [st |-> "error", content |-> <<>>] }

\* The mappings the extractor can return: distinct keys, each a valid
\* normalized path, at most MaxArtifacts of them.
ArtifactKeys == {NameFoo, KeyOo, KeySrcFoo}

RECURSIVE MapsOf(_)
MapsOf(n) ==
    IF n = 0 THEN {<<>>}
    ELSE LET shorter == MapsOf(n - 1)
         IN  shorter \cup
             { Append(d, [key |-> key, val |-> val]) :
                 d \in {m \in shorter : Len(m) = n - 1},
                 key \in ArtifactKeys, val \in {<<>>, <<"#">>} }

ArtifactMaps ==
    { d \in MapsOf(MaxArtifacts) : \A a, b \in 1..Len(d) : d[a].key = d[b].key => a = b }

(***************************************************************************)
(* create_project_from_yaml.  The recursion is a stack of frames; a frame  *)
(* is the list being iterated, the position in it and current_path         *)
(* (relative to base_dir, as a sequence of names).                         *)
(***************************************************************************)
top == stack[Len(stack)]

item == top.items[top.idx]

\* The for loop moves on to the next item of the top frame.
advance(st) == [st EXCEPT ![Len(st)].idx = @ + 1]

\* Line 170.
relative_path_str(parts, sep) == replace(join_with(parts, sep), "\\", "/")

\* Variant of suffix_match: the boundary check of line 200 is left out.
suffix_match_plain(R, key) == endswith(R, key)

\* Lines 197-200: key is a suffix of R on a path-segment boundary.
suffix_match(R, key) ==
    /\ endswith(R, key)
    /\ (R = key \/ endswith(R, <<"/">> \o key))

\* Lines 185-205: direct match, then the first suffix match in iteration order.
lookup(arts, R) ==
    IF dict_has(arts, R)
    THEN [content |-> dict_get(arts, R), source |-> "artifact", key |-> R]
    ELSE LET hits == {n \in 1..Len(arts) : suffix_match(R, arts[n].key)}
         IN  IF hits # {}
             THEN [content |-> arts[Min(hits)].val, source |-> "artifact (matched on)",
                   key |-> arts[Min(hits)].key]
             ELSE [content |-> None, source |-> "empty", key |-> None]

\* Variant of fallback: line 212 tests "not content" instead of "content is None".
fallback_falsy(node, res, tpls) ==
    IF res.content \notin {None, <<>>} THEN res
    ELSE IF node.content # Absent
    THEN [content |-> node.content, source |-> "YAML content", key |-> None]
    ELSE IF node.template # Absent
    THEN CASE tpls[node.template].st = "ok" ->
                [content |-> tpls[node.template].content, source |-> "template", key |-> None]
           [] tpls[node.template].st = "notfound" ->
                [content |-> None, source |-> "template (not found)", key |-> None]
           [] OTHER -> res
    ELSE res

\* Lines 212-226: inline content, then the template.
fallback(node, res, tpls) ==
    IF res.content # None THEN res
    ELSE IF node.content # Absent
    THEN [content |-> node.content, source |-> "YAML content", key |-> None]
    ELSE IF node.template # Absent
    THEN CASE tpls[node.template].st = "ok" ->
                [content |-> tpls[node.template].content, source |-> "template", key |-> None]
           [] tpls[node.template].st = "notfound" ->
                [content |-> None, source |-> "template (not found)", key |-> None]
           [] OTHER -> res
    ELSE res

resolve(node, arts, R, tpls) == fallback(node, lookup(arts, R), tpls)

\* Variant of record_empty: line 228 tests the content instead of the source.
record_empty_falsy(acc, res, R) == IF res.content \in {None, <<>>} THEN Append(acc, R) ELSE acc

\* Lines 228-229.
record_empty(acc, res, R) == IF res.source = "empty" THEN Append(acc, R) ELSE acc

\* Lines 233-235: what the file holds after a successful write.
written(content) == IF content = None THEN <<>> ELSE content

\* Lines 160-165: a directory item.  mkdir(exist_ok=True) raises when the path
\* exists as a file or the host refuses; the exception leaves the function.
\* Variant of descend: the children wait until the rest of the tree is done.
descend_after_siblings(st, children, new_path) ==
    <<[items |-> children, idx |-> 1, path |-> new_path]>> \o st

\* Lines 164-165: the recursive call runs the children before the loop goes on.
descend(st, children, new_path) ==
    Append(st, [items |-> children, idx |-> 1, path |-> new_path])

MakeDirectory(ok) ==
    /\ pc = "resolve"
    /\ top.idx <= Len(top.items)
    /\ item.kind = "directory"
    /\ LET new_path == Append(top.path, item.name)
       IN  IF ok /\ new_path \notin DOMAIN files
           THEN /\ dirs' = dirs \cup {new_path}
                /\ stack' = IF item.children # <<>>
                            THEN descend(advance(stack), item.children, new_path)
                            ELSE advance(stack)
                /\ pc' = "resolve"
           ELSE /\ pc' = "raised"
                /\ UNCHANGED <<dirs, stack>>
    /\ UNCHANGED <<structure, os_sep, templates, files, empty_files, created>>
    /\ UNCHANGED <<diag, yaml>>
    /\ UNCHANGED extractVars

\* Variant of after_write_error: the write is not inside a try, the error leaves the function.
after_write_error_raises(st) == [next |-> st, pc |-> "raised"]

\* What a failed write of a declared file does to the traversal (lines 237-238).
after_write_error(st) == [next |-> advance(st), pc |-> "resolve"]

\* Lines 168-238: a file item is resolved and its write attempted.
ResolveFile(ok) ==
    /\ pc = "resolve"
    /\ top.idx <= Len(top.items)
    /\ item.kind = "file"
    /\ LET file_path == Append(top.path, item.name)
           R == relative_path_str(file_path, os_sep)
           res == resolve(item, artifacts, R, templates)
           success == ok /\ file_path \notin dirs
       IN  /\ empty_files' = record_empty(empty_files, res, R)
           /\ created' = Append(created, [path |-> R, source |-> res.source, key |-> res.key,
                                          content |-> res.content, ok |-> success,
                                          node |-> item, at |-> file_path])
           /\ IF success
              THEN /\ files' = (file_path :> written(res.content)) @@ files
                   /\ stack' = advance(stack)
                   /\ pc' = "resolve"
              ELSE /\ files' = files
                   /\ stack' = after_write_error(stack).next
                   /\ pc' = after_write_error(stack).pc
    /\ UNCHANGED <<structure, os_sep, templates, dirs>>
    /\ UNCHANGED <<diag, yaml>>
    /\ UNCHANGED extractVars

\* Lines 158-159, 167: an item that is neither a directory nor a file.
SkipItem ==
    /\ pc = "resolve"
    /\ top.idx <= Len(top.items)
    /\ item.kind = "other"
    /\ stack' = advance(stack)
    /\ UNCHANGED <<structure, os_sep, templates, dirs, files, empty_files, created, pc>>
    /\ UNCHANGED <<diag, yaml>>
    /\ UNCHANGED extractVars

\* Line 157: the loop over a list ends; the call returns.
ReturnFrame ==
    /\ pc = "resolve"
    /\ top.idx > Len(top.items)
    /\ stack' = SubSeq(stack, 1, Len(stack) - 1)
    /\ pc' = IF Len(stack) = 1 THEN "summary" ELSE "resolve"
    /\ UNCHANGED <<structure, os_sep, templates, dirs, files, empty_files, created>>
    /\ UNCHANGED <<diag, yaml>>
    /\ UNCHANGED extractVars

(***************************************************************************)
(* create_files_from_artifacts and main.  The declaration carries no       *)
(* project name, so project_root is base_dir; paths are relative to it.    *)
(***************************************************************************)
\* s.split(c)
RECURSIVE split(_, _)
split(s, c) ==
    IF find(s, <<c>>) = 0 THEN <<s>>
    ELSE <<SubSeq(s, 1, find(s, <<c>>) - 1)>> \o split(SubSeq(s, find(s, <<c>>) + 1, Len(s)), c)

\* The proper prefixes of a path: the directories parent.mkdir(parents=True) makes.
parents(parts) == {SubSeq(parts, 1, n) : n \in 1..(Len(parts) - 1)}

\* What main can find at yaml_path: nothing (no -s, or no such file), a file
\* that cannot be loaded as a mapping, or a declaration.
YamlFiles ==
    { [st |-> "absent", structure |-> <<>>], [st |-> "unreadable", structure |-> <<>>] }
    \cup { [st |-> "ok", structure |-> s] : s \in Structures \cup {<<>>} }

\* Variant of nothing_to_do: a declaration that cannot be loaded counts as none.
nothing_to_do_unloadable(arts, y) == arts = <<>> /\ y.st # "ok"

\* Variant of nothing_to_do: the declaration is not looked at.
nothing_to_do_no_artifacts(arts, y) == arts = <<>>

\* Line 276: not artifacts and not (yaml_path and yaml_path.exists()).
nothing_to_do(arts, y) == arts = <<>> /\ y.st = "absent"

\* Lines 276-284: nothing to do, or the output directory is made.  mkdir raises
\* when the host refuses; nothing catches it.
CheckInputs(y, ok) ==
    /\ pc = "extracted"
    /\ yaml' = y
    /\ IF nothing_to_do(artifacts, y)
       THEN /\ pc' = "nothing"
            /\ dirs' = dirs
       ELSE IF ok
       THEN /\ pc' = "dispatch"
            /\ dirs' = dirs \cup {<<>>}
       ELSE /\ pc' = "crashed"
            /\ dirs' = dirs
    /\ UNCHANGED <<structure, stack, os_sep, templates, files, empty_files, created>>
    /\ UNCHANGED diag
    /\ UNCHANGED extractVars

\* Lines 286-305: the declaration is loaded; tpls is what the template files hold.
LoadYaml(tpls) ==
    /\ pc = "dispatch"
    /\ yaml.st # "absent"
    /\ IF yaml.st = "unreadable"
       THEN /\ diag' = Append(diag, "An unexpected error occurred while processing the YAML file")
            /\ pc' = "summary"
            /\ UNCHANGED <<structure, stack, templates>>
       ELSE IF yaml.structure # <<>>
       THEN /\ structure' = yaml.structure
            /\ stack' = <<[items |-> yaml.structure, idx |-> 1, path |-> <<>>]>>
            /\ templates' = tpls
            /\ pc' = "resolve"
            /\ diag' = diag
       ELSE /\ diag' = Append(diag, "YAML file is missing or has an empty 'structure' key")
            /\ stack' = IF artifacts # <<>>
                        THEN <<[items |-> artifacts, idx |-> 1, path |-> <<>>]>>
                        ELSE stack
            /\ pc' = IF artifacts # <<>> THEN "flat" ELSE "summary"
            /\ UNCHANGED <<structure, templates>>
    /\ UNCHANGED <<os_sep, dirs, files, empty_files, created>>
    /\ UNCHANGED yaml
    /\ UNCHANGED extractVars

\* Lines 306-308, 129-133: no declaration; the artifacts are written as they are.
StartFlat ==
    /\ pc = "dispatch"
    /\ yaml.st = "absent"
    /\ stack' = <<[items |-> artifacts, idx |-> 1, path |-> <<>>]>>
    /\ pc' = "flat"
    /\ UNCHANGED <<structure, os_sep, templates, dirs, files, empty_files, created>>
    /\ UNCHANGED <<diag, yaml>>
    /\ UNCHANGED extractVars

\* Lines 134-143: one artifact is written below base_dir.
WriteArtifact(ok) ==
    /\ pc = "flat"
    /\ top.idx <= Len(top.items)
    /\ LET file_path == split(item.key, "/")
           success == ok /\ file_path \notin dirs /\ parents(file_path) \cap DOMAIN files = {}
       IN  /\ created' = Append(created, [path |-> item.key, source |-> "artifact", key |-> item.key,
                                          content |-> item.val, ok |-> success,
                                          node |-> Other, at |-> file_path])
           /\ IF success
              THEN /\ dirs' = dirs \cup parents(file_path)
                   /\ files' = (file_path :> item.val) @@ files
              ELSE UNCHANGED <<dirs, files>>
    /\ stack' = advance(stack)
    /\ UNCHANGED <<structure, os_sep, templates, empty_files, pc>>
    /\ UNCHANGED <<diag, yaml>>
    /\ UNCHANGED extractVars

\* Line 134: the loop over the artifacts ends.
FlatDone ==
    /\ pc = "flat"
    /\ top.idx > Len(top.items)
    /\ stack' = <<>>
    /\ pc' = "summary"
    /\ UNCHANGED <<structure, os_sep, templates, dirs, files, empty_files, created>>
    /\ UNCHANGED <<diag, yaml>>
    /\ UNCHANGED extractVars

\* Lines 304-305: an exception out of create_project_from_yaml is reported.
HandleRaised ==
    /\ pc = "raised"
    /\ stack' = <<>>
    /\ diag' = Append(diag, "An unexpected error occurred while processing the YAML file")
    /\ pc' = "summary"
    /\ UNCHANGED <<structure, os_sep, templates, dirs, files, empty_files, created>>
    /\ UNCHANGED yaml
    /\ UNCHANGED extractVars

\* Lines 310-318.
PrintSummary ==
    /\ pc = "summary"
    /\ pc' = "done"
    /\ UNCHANGED resolveVars
    /\ UNCHANGED <<diag, yaml>>
    /\ UNCHANGED extractVars

(***************************************************************************)
(* The three specifications: the extractor alone, the resolver alone on    *)
(* every mapping the extractor can hand it, and the whole run of main.     *)
(***************************************************************************)
\* The state in which main calls extract_artifacts_from_markdown (line 274).
Init ==
    /\ lines = <<>>
    /\ i = 0
    /\ j = 0
    /\ k = 0
    /\ file_path_str = <<>>
    /\ is_versioned = FALSE
    /\ code_content = <<>>
    /\ artifacts = <<>>
    /\ found = <<>>
    /\ scanned = {}
    /\ pc = "read"
    /\ diag = <<>>
    /\ yaml = None
    /\ structure = <<>>
    /\ stack = <<>>
    /\ os_sep \in {"/", "\\"}
    /\ templates = <<>>
    /\ dirs = {}
    /\ files = <<>>
    /\ empty_files = <<>>
    /\ created = <<>>

ReadErrors == {"Error: Markdown file not found", "Error reading Markdown file"}

NextExtract ==
    \/ pc = "read" /\ \E doc \in Documents : ReadDocument(doc)
    \/ pc = "read" /\ \E error \in ReadErrors : ReadDocumentFails(error)
    \/ SkipLine
    \/ SkipInvalidHeader
    \/ StartSearch
    \/ FoundFence
    \/ AbortSearch
    \/ SearchNext
    \/ SearchExhausted
    \/ CollectLine
    \/ RecordArtifact
    \/ ReturnArtifacts

SpecExtract == Init /\ [][NextExtract]_vars

\* The state in which create_project_from_yaml is entered (line 157).
InitResolve ==
    /\ lines = <<>>
    /\ i = 0
    /\ j = 0
    /\ k = 0
    /\ file_path_str = <<>>
    /\ is_versioned = FALSE
    /\ code_content = <<>>
    /\ artifacts \in ArtifactMaps
    /\ found = <<>>
    /\ scanned = {}
    /\ pc = "resolve"
    /\ diag = <<>>
    /\ yaml = None
    /\ structure \in Structures
    /\ stack = <<[items |-> structure, idx |-> 1, path |-> <<>>]>>
    /\ os_sep \in {"/", "\\"}
    /\ templates \in [{NameTpl} -> TemplateStates]
    /\ dirs = {<<>>}
    /\ files = <<>>
    /\ empty_files = <<>>
    /\ created = <<>>

NextResolve ==
    \/ \E ok \in BOOLEAN : MakeDirectory(ok)
    \/ \E ok \in BOOLEAN : ResolveFile(ok)
    \/ SkipItem
    \/ ReturnFrame

SpecResolve == InitResolve /\ [][NextResolve]_vars

Next ==
    \/ NextExtract
    \/ pc = "extracted" /\ \E y \in YamlFiles, ok \in BOOLEAN : CheckInputs(y, ok)
    \/ pc = "dispatch" /\ \E tpls \in [{NameTpl} -> TemplateStates] : LoadYaml(tpls)
    \/ StartFlat
    \/ \E ok \in BOOLEAN : WriteArtifact(ok)
    \/ FlatDone
    \/ NextResolve
    \/ HandleRaised
    \/ PrintSummary

Spec == Init /\ [][Next]_vars

(***************************************************************************)
(* Vocabulary of the properties.                                           *)
(***************************************************************************)
Max(S) == CHOOSE n \in S : \A m \in S : m <= n

\* Line n (0-based) is a header candidate, a valid header, a fence.
HeaderCandidateAt(n) == FILE_PATH_PATTERN(strip(Line(n))) # None

ValidHeaderAt(n) ==
    /\ HeaderCandidateAt(n)
    /\ is_valid_path(candidate_path(FILE_PATH_PATTERN(strip(Line(n)))))

FenceAt(n) == LET t == strip(Line(n)) IN Len(t) >= 3 /\ t[1] = Backtick /\ t[2] = Backtick /\ t[3] = Backtick

\* The lines ls written one after the other.
RECURSIVE Concat(_)
Concat(ls) == IF Len(ls) = 0 THEN <<>> ELSE Concat(SubSeq(ls, 1, Len(ls) - 1)) \o ls[Len(ls)]

\* The text between the fence lines of a recorded match, read off the document.
BlockContent(m) == Concat(SubSeq(lines, m.fence + 2, m.close))

\* No fence start comes after line n before the next header candidate or the end.
NoFenceAhead(n) ==
    \A f \in (n + 1)..(Len(lines) - 1) :
        FenceAt(f) => \E h \in (n + 1)..(f - 1) : HeaderCandidateAt(h)

\* K is a suffix of R that starts right after a "/" of R.
SegmentAligned(R, K) ==
    /\ Len(K) < Len(R)
    /\ SubSeq(R, Len(R) - Len(K) + 1, Len(R)) = K
    /\ R[Len(R) - Len(K)] = "/"

AlignedKeys(R) == {n \in 1..Len(artifacts) : SegmentAligned(R, artifacts[n].key)}

NoArtifactFor(R) == ~dict_has(artifacts, R) /\ AlignedKeys(R) = {}

Elems(seq) == {seq[n] : n \in 1..Len(seq)}

\* The declared file paths in pre-order.
RECURSIVE DeclaredFiles(_, _)
DeclaredFiles(items, path) ==
    IF items = <<>> THEN <<>>
    ELSE LET h == Head(items)
             here == IF h.kind = "file" THEN <<Append(path, h.name)>>
                     ELSE IF h.kind = "directory"
                     THEN DeclaredFiles(h.children, Append(path, h.name))
                     ELSE <<>>
         IN  here \o DeclaredFiles(Tail(items), path)

\* Two strings equal up to the choice of "/" or "\" as separator.
SameUpToSeparator(a, b) ==
    /\ Len(a) = Len(b)
    /\ \A n \in 1..Len(a) : a[n] = b[n] \/ {a[n], b[n]} = {"/", "\\"}

(***************************************************************************)
(* Properties of the extractor and the resolver.                           *)
(***************************************************************************)
\* C1: last one wins. When the scan has ended, every path that was matched
\* (once or several times) has exactly one entry in the mapping, and its value
\* is the text of the block of the last header matched for that path.
LastOneWins ==
    ScanEnded =>
        \A p \in {found[n].path : n \in 1..Len(found)} :
            LET last == found[Max({n \in 1..Len(found) : found[n].path = p})]
            IN  /\ Cardinality({n \in 1..Len(artifacts) : artifacts[n].key = p}) = 1
                /\ dict_get(artifacts, p) = BlockContent(last)
                /\ ValidHeaderAt(last.header)
                /\ FenceAt(last.fence)

\* Two headers of one path, with different blocks, have both been matched.
LastOneWinsWitness ==
    /\ ScanEnded
    /\ \E a, b \in 1..Len(found) :
          /\ a < b
          /\ found[a].path = found[b].path
          /\ Line(found[a].header) # Line(found[b].header)
          /\ BlockContent(found[a]) # BlockContent(found[b])

\* C2: boundary-safe suffix matching. For a declared path R that is not a key,
\* the resolver reports a suffix match exactly when some key is a suffix of R
\* starting right after a "/", and the key it used is such a key.
BoundarySafeSuffix ==
    \A n \in 1..Len(created) :
        LET c == created[n]
        IN  ~dict_has(artifacts, c.path) =>
              /\ c.source # "artifact"
              /\ (c.source = "artifact (matched on)") <=> (AlignedKeys(c.path) # {})
              /\ (c.source = "artifact (matched on)") => SegmentAligned(c.path, c.key)

\* src/foo.ts was resolved with oo.ts and foo.ts as the keys, in that order.
BoundarySafeSuffixWitness ==
    /\ Len(artifacts) = 2
    /\ artifacts[1].key = KeyOo
    /\ artifacts[2].key = NameFoo
    /\ \E n \in 1..Len(created) :
          /\ created[n].path = KeySrcFoo
          /\ created[n].key = NameFoo
          /\ created[n].source = "artifact (matched on)"

\* C3: template-missing fallback. A declared file with no matching artifact, no
\* inline content and a template that cannot be read is written empty and its
\* path is in the empty-files list.
TemplateMissingIsEmpty ==
    \A n \in 1..Len(created) :
        LET c == created[n]
        IN  (/\ NoArtifactFor(c.path)
             /\ c.node.content = Absent
             /\ c.node.template # Absent
             /\ templates[c.node.template].st # "ok")
            => /\ written(c.content) = <<>>
               /\ c.path \in Elems(empty_files)

\* C4: template fallback. A declared file with no matching artifact, no inline
\* content and a readable template gets the template's content, and its path
\* is not in the empty-files list.
TemplateFallback ==
    \A n \in 1..Len(created) :
        LET c == created[n]
        IN  (/\ NoArtifactFor(c.path)
             /\ c.node.content = Absent
             /\ c.node.template # Absent
             /\ templates[c.node.template].st = "ok")
            => /\ c.content = templates[c.node.template].content
               /\ c.path \notin Elems(empty_files)
               /\ c.ok => files[c.at] = templates[c.node.template].content

\* A file was written from a readable template, and another from an empty one.
TemplateFallbackWitness ==
    \E n \in 1..Len(created) :
        /\ NoArtifactFor(created[n].path)
        /\ created[n].node.content = Absent
        /\ created[n].node.template # Absent
        /\ templates[created[n].node.template].st = "ok"
        /\ created[n].ok
        /\ artifacts # <<>>

\* C5: resolution priority. Direct match, then suffix match, then inline
\* content, then template, then empty; a matched artifact is used whatever the
\* node declares, also when its content is empty, and is then not an empty file.
ResolutionPriority ==
    \A n \in 1..Len(created) :
        LET c == created[n]
            R == c.path
            direct == dict_has(artifacts, R)
            aligned == AlignedKeys(R)
            inline == c.node.content # Absent
            tpl == c.node.template # Absent
        IN  /\ direct => c.source = "artifact" /\ c.content = dict_get(artifacts, R)
            /\ (~direct /\ aligned # {}) =>
                  /\ c.source = "artifact (matched on)"
                  /\ \E m \in aligned : c.key = artifacts[m].key /\ c.content = artifacts[m].val
            /\ (NoArtifactFor(R) /\ inline) =>
                  c.source = "YAML content" /\ c.content = c.node.content
            /\ (NoArtifactFor(R) /\ ~inline /\ tpl /\ templates[c.node.template].st = "ok") =>
                  c.source = "template"
            /\ (NoArtifactFor(R) /\ ~inline /\ ~tpl) =>
                  c.source = "empty" /\ c.content = None /\ R \in Elems(empty_files)
            /\ (direct \/ aligned # {}) => R \notin Elems(empty_files)
            /\ c.ok => files[c.at] = (IF c.content = None THEN <<>> ELSE c.content)

\* An artifact with empty content matched a node that declares inline content
\* and a template.
ResolutionPriorityWitness ==
    \E n \in 1..Len(created) :
        /\ ~NoArtifactFor(created[n].path)
        /\ created[n].content = <<>>
        /\ created[n].node.content = <<"i">>
        /\ created[n].node.template # Absent
        /\ created[n].ok

\* C6: no fence, no artifact. While the extractor works on a valid header that
\* has no fence start before the next header candidate or the end of the
\* document, no entry is added to the mapping or overwritten.
NoFenceNoArtifact ==
    [][(pc \in {"search", "collect"} /\ NoFenceAhead(i))
         => (artifacts' = artifacts /\ found' = found /\ pc' # "collect")]_vars

\* The search for a valid header was given up at a header candidate although a
\* fence comes later in the document.
NoFenceNoArtifactWitness ==
    /\ pc = "scan"
    /\ i >= 1
    /\ i < Len(lines)
    /\ ValidHeaderAt(i - 1)
    /\ NoFenceAhead(i - 1)
    /\ HeaderCandidateAt(i)
    /\ \E f \in (i + 1)..(Len(lines) - 1) : FenceAt(f)

\* C7: invalid-header rejection. Every key of the mapping contains "." or "/",
\* and no match was recorded for a header whose candidate path has none of
\* ".", "/", "\".
InvalidHeaderRejected ==
    /\ \A n \in 1..Len(artifacts) :
          \E c \in 1..Len(artifacts[n].key) : artifacts[n].key[c] \in {".", "/"}
    /\ pc \in {"scan", "search", "collect"} =>
          \A n \in 1..Len(found) :
              \E c \in 1..Len(candidate_path(FILE_PATH_PATTERN(strip(Line(found[n].header))))) :
                  candidate_path(FILE_PATH_PATTERN(strip(Line(found[n].header))))[c]
                      \in {".", "/", "\\"}

\* A bolded line without ".", "/", "\" stood right before a fence, outside
\* every consumed block, and the scan has ended.
InvalidHeaderRejectedWitness ==
    /\ ScanEnded
    /\ \E n \in 0..(Len(lines) - 2) :
          /\ HeaderCandidateAt(n)
          /\ ~ValidHeaderAt(n)
          /\ FenceAt(n + 1)
          /\ \A m \in 1..Len(found) : ~(found[m].fence < n /\ n <= found[m].close)

\* The document is a valid header, an opening fence, content lines and a
\* closing fence, and nothing else.
SingleBlockDocument ==
    /\ Len(lines) >= 3
    /\ ValidHeaderAt(0)
    /\ FenceAt(1)
    /\ FenceAt(Len(lines) - 1)
    /\ \A n \in 2..(Len(lines) - 2) : ~FenceAt(n)

\* C8: verbatim round trip. For a single-block document the mapping has one
\* entry: the header's normalized path, with the content lines concatenated
\* unchanged.
VerbatimRoundTrip ==
    (ScanEnded /\ SingleBlockDocument) =>
        artifacts =
            << [key |-> normalized_path(candidate_path(FILE_PATH_PATTERN(strip(Line(0))))),
                val |-> Concat(SubSeq(lines, 3, Len(lines) - 1))] >>

VerbatimRoundTripWitness ==
    /\ ScanEnded
    /\ SingleBlockDocument
    /\ Len(lines) >= 4
    /\ artifacts # <<>>
    /\ artifacts[1].val = TextLine

\* C9: path normalization. No key of the mapping, no path the resolver looks up
\* and no entry of the empty-files list contains a backslash, and headers that
\* differ only in the separator were recorded under one key.
PathsNormalized ==
    /\ \A n \in 1..Len(artifacts) : ~contains(artifacts[n].key, "\\")
    /\ \A n \in 1..Len(created) : ~contains(created[n].path, "\\")
    /\ \A n \in 1..Len(empty_files) : ~contains(empty_files[n], "\\")
    /\ \A a, b \in 1..Len(found) :
          SameUpToSeparator(found[a].name, found[b].name) => found[a].path = found[b].path

\* On a host whose separator is the backslash, a file below src was resolved
\* from the artifact of a header written with a backslash.
PathsNormalizedWitness ==
    /\ os_sep = "\\"
    /\ \E n \in 1..Len(found) : contains(found[n].name, "\\")
    /\ \E n \in 1..Len(found) : contains(found[n].name, "/")
    /\ \E n \in 1..Len(created) :
          /\ created[n].source = "artifact"
          /\ created[n].path = KeySrcFoo
          /\ Len(created[n].at) = 2

\* A step in which the write of a declared file failed.
WriteFailed ==
    /\ Len(created') = Len(created) + 1
    /\ ~created'[Len(created')].ok

\* C10: a write failure is not fatal. The step in which a write fails is
\* reported and leaves the traversal running, and a traversal that ends without
\* a directory error has attempted every declared file, in order.
WriteFailureNonFatal ==
    /\ [][WriteFailed => (pc' = "resolve" /\ Len(stack') = Len(stack))]_vars
    /\ [](pc = "summary" =>
            [n \in 1..Len(created) |-> created[n].at] = DeclaredFiles(structure, <<>>))

\* A write failed and a later declared file was written; the traversal is over.
WriteFailureNonFatalWitness ==
    /\ pc = "summary"
    /\ \E a, b \in 1..Len(created) : a < b /\ ~created[a].ok /\ created[b].ok

(***************************************************************************)
(* Properties of main and of the document read.                            *)
(***************************************************************************)
\* main has decided whether there is anything to do (line 276).
AfterCheckInputs ==
    pc \in {"nothing", "crashed", "dispatch", "resolve", "flat", "raised", "summary", "done"}

\* The source document could not be read; the document did not exist.
DocumentUnreadable ==
    /\ Len(diag) >= 1
    /\ diag[1] \in {"Error: Markdown file not found", "Error reading Markdown file"}

DocumentMissing == Len(diag) >= 1 /\ diag[1] = "Error: Markdown file not found"

NothingCreated == dirs = {} /\ files = <<>> /\ created = <<>>

\* C11 as stated: the run ends as "nothing to do" exactly when the document
\* could not be read and the declaration is absent or unreadable.
NothingToDoOnReadFailures ==
    AfterCheckInputs =>
        ((pc = "nothing") <=> (DocumentUnreadable /\ yaml.st \in {"absent", "unreadable"}))

\* C11 amended: the run ends as "nothing to do", with nothing created, exactly
\* when the mapping is empty (document unreadable or without artifacts) and no
\* declaration file exists; otherwise the output directory is made, unless its
\* creation raises.
NothingToDoOnEmptyMapping ==
    AfterCheckInputs =>
        /\ (pc = "nothing") <=> (Len(artifacts) = 0 /\ yaml.st = "absent")
        /\ pc = "nothing" => NothingCreated
        /\ pc \notin {"nothing", "crashed"} => <<>> \in dirs

\* A readable document without artifacts, and no declaration: nothing to do.
NothingToDoOnEmptyMappingWitness ==
    /\ pc = "nothing"
    /\ ~DocumentUnreadable
    /\ yaml.st = "absent"

\* C12 as stated: when the document does not exist, no declared directory or
\* file is ever created.
MissingDocumentAborts ==
    DocumentMissing => (dirs \subseteq {<<>>} /\ files = <<>> /\ created = <<>>)

\* C12 amended: when the document does not exist the mapping is empty; the run
\* ends with nothing created only when no declaration file exists; with a
\* declaration the run goes on, no file gets artifact content, and a traversal
\* that returns has attempted every declared file.
MissingDocumentUsesDeclaration ==
    DocumentMissing =>
        /\ Len(artifacts) = 0
        /\ Len(found) = 0
        /\ AfterCheckInputs =>
              /\ (yaml.st = "absent") <=> (pc = "nothing")
              /\ yaml.st = "absent" => NothingCreated
        /\ \A n \in 1..Len(created) :
              created[n].source \notin {"artifact", "artifact (matched on)"}
        /\ (pc \in {"summary", "done"} /\ yaml.st = "ok" /\ Len(diag) = 1) =>
              [n \in 1..Len(created) |-> created[n].at] = DeclaredFiles(yaml.structure, <<>>)

\* The document did not exist, and a declared file was written all the same.
MissingDocumentUsesDeclarationWitness ==
    /\ DocumentMissing
    /\ pc = "done"
    /\ \E n \in 1..Len(created) : created[n].ok /\ Len(created[n].at) = 2

\* C13: an unreadable document yields the empty mapping. Whenever the read does
\* not deliver the lines, the function returns, the mapping is empty and one
\* diagnostic has been added.
UnreadableYieldsEmpty ==
    [][(pc = "read" /\ pc' # "scan")
         => (/\ pc' = "extracted"
             /\ Len(artifacts') = 0
             /\ Len(diag') = Len(diag) + 1
             /\ diag'[Len(diag')] \in {"Error: Markdown file not found",
                                       "Error reading Markdown file"})]_vars

\* The read failed for a reason other than a missing file, and the function returned.
UnreadableYieldsEmptyWitness ==
    /\ pc = "extracted"
    /\ diag = <<"Error reading Markdown file">>
    /\ Len(artifacts) = 0

(***************************************************************************)
(* Properties of the scan order.                                           *)
(***************************************************************************)
Scanning == pc \in {"scan", "search", "collect"}

\* Line n lies in a block the extractor consumed: from its opening fence to the
\* line that ended it.
Consumed(n) == \E m \in 1..Len(found) : found[m].fence <= n /\ n <= found[m].close

\* C14: consumed blocks are opaque. No line of a consumed block is ever taken up
\* as a header by the outer scan, so a header-shaped line inside consumed code
\* starts no artifact; every recorded artifact comes from a line the outer scan
\* took up; each time a block is recorded the outer scan resumes on the line
\* right after the one that ended the block; and when the scan is over, every
\* header-candidate line outside all consumed blocks has been taken up.
ConsumedBlocksOpaque ==
    /\ [](Scanning =>
            /\ \A n \in scanned : ~Consumed(n)
            /\ \A m \in 1..Len(found) : found[m].header \in scanned
            /\ (pc = "scan" /\ i >= Len(lines)) =>
                  \A n \in 0..(Len(lines) - 1) :
                      (HeaderCandidateAt(n) /\ ~Consumed(n)) => n \in scanned)
    /\ [][(Scanning /\ Len(found') > Len(found))
            => (/\ i' = k + 1
                /\ k > j
                /\ (k = Len(lines) \/ FenceAt(k))
                /\ \A n \in (j + 1)..(k - 1) : ~FenceAt(n))]_vars

\* The scan is over, a valid header line sits inside a consumed block, and
\* neither was it taken up nor is its path a key.
ConsumedBlocksOpaqueWitness ==
    /\ pc = "scan"
    /\ i >= Len(lines)
    /\ \E m \in 1..Len(found) : \E n \in (found[m].fence + 1)..(found[m].close - 1) :
          /\ ValidHeaderAt(n)
          /\ n \notin scanned
          /\ ~dict_has(artifacts, normalized_path(candidate_path(FILE_PATH_PATTERN(strip(Line(n))))))

\* The first header candidate after line n, if no fence start comes before it;
\* Len(lines) when the search from n meets a fence start or the end first.
NextCandidate(n) ==
    LET stops == {h \in (n + 1)..(Len(lines) - 1) :
                      CODE_BLOCK_PATTERN(strip(Line(h))) \/ HeaderCandidateAt(h)}
    IN  IF stops = {} THEN Len(lines)
        ELSE LET h == CHOOSE x \in stops : \A y \in stops : x <= y
             IN  IF CODE_BLOCK_PATTERN(strip(Line(h))) THEN Len(lines) ELSE h

\* C15: an aborted search consumes nothing. A search that stops at another
\* header candidate resumes the outer scan on the line after the original
\* header and records nothing; so when the scan is over, for every valid header
\* H whose search met a candidate H' first: H has no artifact of its own, H' was
\* taken up by the outer scan, and if H' is valid and a fence start follows it
\* before any other candidate, a block is recorded under H'.
AbortConsumesNothing ==
    /\ [][(pc = "search" /\ pc' = "scan" /\ j < Len(lines))
            => (i' = i + 1 /\ i' <= j /\ found' = found /\ artifacts' = artifacts)]_vars
    /\ []((pc = "scan" /\ i >= Len(lines)) =>
            \A n \in scanned :
                (ValidHeaderAt(n) /\ NextCandidate(n) < Len(lines)) =>
                    LET h == NextCandidate(n)
                    IN  /\ \A m \in 1..Len(found) : found[m].header # n
                        /\ h \in scanned
                        /\ (ValidHeaderAt(h) /\ NextCandidate(h) = Len(lines)
                              /\ ~NoFenceAhead(h)) =>
                              \E m \in 1..Len(found) :
                                  /\ found[m].header = h
                                  /\ found[m].path =
                                        normalized_path(candidate_path(FILE_PATH_PATTERN(strip(Line(h)))))
                                  /\ dict_has(artifacts, found[m].path))

\* The scan is over: a valid header was followed by a second valid header with
\* a different path before any fence, and the block went to the second.
AbortConsumesNothingWitness ==
    /\ pc = "scan"
    /\ i >= Len(lines)
    /\ \E n \in scanned :
          /\ ValidHeaderAt(n)
          /\ NextCandidate(n) < Len(lines)
          /\ ValidHeaderAt(NextCandidate(n))
          /\ Len(found) = 1
          /\ found[1].header = NextCandidate(n)
          /\ found[1].path # normalized_path(candidate_path(FILE_PATH_PATTERN(strip(Line(n)))))

(***************************************************************************)
(* Properties of the suffix match order and of the traversal.              *)
(***************************************************************************)
\* The extraction reports, in order, whose key is aligned with R.
AlignedReports(R) == {m \in 1..Len(found) : SegmentAligned(R, found[m].path)}

\* C16: the suffix tie-break is first-insertion order. Every file resolved by a
\* suffix match took, among all keys that are segment-aligned suffixes of its
\* relative path, the key whose first extraction came earliest in the document
\* (a later overwrite of that key does not move it), with that key's current
\* value; neither length nor recency of the key decides.
FirstInsertedSuffixWins ==
    \A n \in 1..Len(created) :
        created[n].source = "artifact (matched on)" =>
            /\ AlignedReports(created[n].path) # {}
            /\ created[n].key = found[Min(AlignedReports(created[n].path))].path
            /\ created[n].content = dict_get(artifacts, created[n].key)

\* Two keys are aligned suffixes of app/src/foo.ts; src/foo.ts was extracted
\* first, then foo.ts, then src/foo.ts again; src/foo.ts was taken.
FirstInsertedSuffixWinsWitness ==
    /\ Len(found) = 3
    /\ found[1].path = KeySrcFoo
    /\ found[2].path = NameFoo
    /\ found[3].path = KeySrcFoo
    /\ \E n \in 1..Len(created) :
          /\ created[n].source = "artifact (matched on)"
          /\ created[n].key = KeySrcFoo
          /\ AlignedKeys(created[n].path) = {1, 2}

\* Two keys are aligned suffixes; the shorter was extracted first and was taken.
ShorterSuffixTaken ==
    \E n \in 1..Len(created) :
        /\ created[n].source = "artifact (matched on)"
        /\ created[n].key = NameFoo
        /\ AlignedKeys(created[n].path) = {1, 2}

\* The declared directories and files, each with its path, in pre-order.
RECURSIVE DeclaredNodes(_, _)
DeclaredNodes(items, path) ==
    IF items = <<>> THEN <<>>
    ELSE LET h == Head(items)
             at == Append(path, h.name)
             here == IF h.kind = "file" THEN <<[kind |-> "file", at |-> at]>>
                     ELSE IF h.kind = "directory"
                     THEN <<[kind |-> "directory", at |-> at]>> \o DeclaredNodes(h.children, at)
                     ELSE <<>>
         IN  here \o DeclaredNodes(Tail(items), path)

\* When the node at position n of the pre-order is being handled, the declared
\* directories before it exist and those after it do not.
HandledInPreOrder(nodes, n, made) ==
    \A m \in 1..Len(nodes) :
        nodes[m].kind = "directory" =>
            /\ m < n => nodes[m].at \in made
            /\ m > n => nodes[m].at \notin made

Nodes == DeclaredNodes(structure, <<>>)

FilesBefore(n) == Cardinality({m \in 1..(n - 1) : Nodes[m].kind = "file"})

\* C17: the traversal is depth-first in declaration order. The files attempted
\* so far are always the first files of the declaration's pre-order, each once,
\* and all of them when the traversal returns;
\* every directory on the way to an attempted file exists; and each directory
\* or file is handled when exactly the nodes before it in pre-order have been
\* handled, so a directory comes before its descendants and these before its
\* next sibling.
DepthFirstDeclarationOrder ==
    /\ [](pc \in {"resolve", "summary", "raised"} =>
            /\ Len(created) <= Len(DeclaredFiles(structure, <<>>))
            /\ \A n \in 1..Len(created) :
                  /\ created[n].at = DeclaredFiles(structure, <<>>)[n]
                  /\ \A p \in 0..(Len(created[n].at) - 1) :
                        SubSeq(created[n].at, 1, p) \in dirs
            /\ \A d \in dirs : \A p \in 0..Len(d) : SubSeq(d, 1, p) \in dirs
            /\ pc = "summary" => Len(created) = Len(DeclaredFiles(structure, <<>>)))
    /\ [][(pc = "resolve" /\ dirs' # dirs) =>
            \E n \in 1..Len(Nodes) :
                /\ Nodes[n].kind = "directory"
                /\ dirs' = dirs \cup {Nodes[n].at}
                /\ Len(created) = FilesBefore(n)
                /\ HandledInPreOrder(Nodes, n, dirs)]_vars
    /\ [][(pc = "resolve" /\ Len(created') > Len(created)) =>
            \E n \in 1..Len(Nodes) :
                /\ Nodes[n].kind = "file"
                /\ FilesBefore(n) = Len(created)
                /\ created'[Len(created')].at = Nodes[n].at
                /\ HandledInPreOrder(Nodes, n + 1, dirs \cup {Nodes[n].at})]_vars

\* The traversal is over: a file two directories deep was attempted, after both
\* directories were made.
DepthFirstDeclarationOrderWitness ==
    /\ pc = "summary"
    /\ \E n \in 1..Len(created) :
          /\ Len(created[n].at) = 3
          /\ SubSeq(created[n].at, 1, 1) \in dirs
          /\ SubSeq(created[n].at, 1, 2) \in dirs

\* The traversal is over: a file inside a directory was attempted before the
\* file declared after that directory.
DescendantsBeforeSibling ==
    /\ pc = "summary"
    /\ Len(created) = 2
    /\ Len(created[1].at) = 2
    /\ Len(created[2].at) = 1

(***************************************************************************)
(* Termination of the extraction.                                          *)
(***************************************************************************)
\* A bound on the steps the extractor still has to take: the outer index
\* weighs more than a whole inner search and collection.
Measure ==
    LET N == Len(lines) + 1
    IN  (N - i) * (2 * N + 3)
          + (CASE pc = "scan" -> 2 * N + 2
               [] pc = "search" -> N + 1 + (N - j)
               [] pc = "collect" -> N - k
               [] OTHER -> 0)

\* C18: the extraction terminates. Each pass of the outer loop moves the outer
\* index forward (by one on a skip, an aborted or an exhausted search; to the
\* line after the block's end on a match), each step of a nested scan moves its
\* index forward by one, within the document; so a natural number bounding the
\* remaining work falls with every step until the function returns.
ExtractionTerminates ==
    /\ [][(pc \in {"scan", "search"} /\ pc' = "scan") => i' = i + 1]_vars
    /\ [][(pc = "collect" /\ pc' = "scan") => (i' = k + 1 /\ k > j /\ j > i)]_vars
    /\ [][(pc = "search" /\ pc' = "search") => (j' = j + 1 /\ j' <= Len(lines))]_vars
    /\ [][(pc = "collect" /\ pc' = "collect") => (k' = k + 1 /\ k' <= Len(lines))]_vars
    /\ [][(Scanning /\ Scanning') => (Measure' < Measure /\ Measure' >= 0)]_vars
    /\ [](Scanning => (Measure >= 0 /\ i <= Len(lines) + 1 /\ j <= Len(lines) /\ k <= Len(lines)))

\* The extraction has returned after more than one match, a skip and a search.
ExtractionTerminatesWitness ==
    /\ pc = "extracted"
    /\ Len(found) >= 2
    /\ Len(artifacts) >= 1
    /\ diag = <<>>

(***************************************************************************)
(* A block the document never closes.                                      *)
(***************************************************************************)
\* The line at which the search from header n finds its fence start;
\* Len(lines) when a header candidate or the end comes first.
FirstFence(n) ==
    LET stops == {h \in (n + 1)..(Len(lines) - 1) :
                      CODE_BLOCK_PATTERN(strip(Line(h))) \/ HeaderCandidateAt(h)}
    IN  IF stops = {} THEN Len(lines)
        ELSE LET h == CHOOSE x \in stops : \A y \in stops : x <= y
             IN  IF CODE_BLOCK_PATTERN(strip(Line(h))) THEN h ELSE Len(lines)

\* Header n is valid, a fence start follows it, and no later line begins with
\* a triple backtick.
UnclosedBlockAt(n) ==
    /\ ValidHeaderAt(n)
    /\ FirstFence(n) < Len(lines)
    /\ \A f \in (FirstFence(n) + 1)..(Len(lines) - 1) : ~FenceAt(f)

\* C19: an unclosed fence still yields an artifact. A block that ran to the end
\* of the document is recorded as the last one, under its header's path, with
\* every line after the fence start as content; the outer scan is then over and
\* takes up no further header; and when the scan is over, every header the scan
\* took up that has an unclosed block has such a record.
UnclosedFenceRecorded ==
    /\ [](Scanning =>
            \A m \in 1..Len(found) :
                found[m].close = Len(lines) =>
                    /\ m = Len(found)
                    /\ UnclosedBlockAt(found[m].header)
                    /\ found[m].fence = FirstFence(found[m].header)
                    /\ dict_get(artifacts, found[m].path)
                          = Concat(SubSeq(lines, found[m].fence + 2, Len(lines)))
                    /\ pc = "scan"
                    /\ i >= Len(lines)
                    /\ \A n \in scanned : n <= found[m].header)
    /\ []((pc = "scan" /\ i >= Len(lines)) =>
            \A n \in scanned :
                UnclosedBlockAt(n) =>
                    \E m \in 1..Len(found) :
                        /\ found[m].header = n
                        /\ found[m].close = Len(lines)
                        /\ found[m].path =
                              normalized_path(candidate_path(FILE_PATH_PATTERN(strip(Line(n)))))
                        /\ dict_has(artifacts, found[m].path))

\* The scan is over: the last block was never closed and a valid header line
\* in it went into the content.
UnclosedFenceRecordedWitness ==
    /\ pc = "scan"
    /\ i >= Len(lines)
    /\ Len(found) >= 1
    /\ found[Len(found)].close = Len(lines)
    /\ \E n \in (found[Len(found)].fence + 1)..(Len(lines) - 1) : ValidHeaderAt(n)
    /\ dict_get(artifacts, found[Len(found)].path) # <<>>
====
